---------------------------- MODULE Spec2Model ----------------------------
(***************************************************************************)
(* A model of the ChaCha20 block stubs emitted by                          *)
(* src/hotspot/cpu/x86/stubGenerator_x86_64_chacha.cpp.                    *)
(*                                                                         *)
(* A 32-bit word is the pair <<lo, hi>> of its 16-bit halves (TLC's        *)
(* integers are 32-bit signed, so a juint does not fit in one of them).    *)
(* Memory is one flat sequence of bytes; byte address a is mem[a + 1].     *)
(* A vector register is a sequence of 32-bit lanes, 4 per 128-bit segment. *)
(*                                                                         *)
(* The module also models the sparse-data integer codec of                 *)
(* src/hotspot/share/code/compressedStream.cpp (SpecCodec).                *)
(***************************************************************************)
EXTENDS Integers, Sequences, FiniteSets, TLC

VARIABLES
    mem,          \* the byte-addressed memory shared by all threads
    regs,         \* regs[t][n + 1]: vector register xmm<n> of thread t
    rax,          \* rax[t]: the address/return-value register
    loopCounter,  \* loopCounter[t]: r8
    pc,           \* pc[t]: the thread's position in the stub
    idx,          \* idx[t]: which load/store of the current group comes next
    call,         \* call[t]: the arguments of the call in progress
    stores,       \* stores[t]: the <<address, length>> of each store so far
    callsLeft,    \* callsLeft[t]: calls the caller of thread t still makes
    history,      \* what each returned call was given and gave back
    menu,         \* menu[t]: the CipherStates and CPUs thread t's caller uses
    writer,       \* the CompressedSparseDataWriteStream
    reader,       \* the CompressedSparseDataReadStream
    written,      \* the juint values given to write_int, in order
    readBack      \* the jint values read_int returned, in order

\* The variables of the ChaCha20 stubs and those of the sparse-data codec.
chachaVars == <<mem, regs, rax, loopCounter, pc, idx, call, stores, callsLeft,
                history, menu>>

codecVars == <<writer, reader, written, readBack>>

vars == <<chachaVars, codecVars>>

\* No stream has been constructed.
NoStream ==
    [buffer |-> <<>>, position |-> 0, bit_pos |-> 0, size |-> 0, junk |-> 0]

-----------------------------------------------------------------------------
(* 32-bit lane arithmetic                                                  *)

Half == 2 ^ 16

Byte == 2 ^ 8

\* The word with high half hi and low half lo.
W(hi, lo) == <<lo, hi>>

RECURSIVE XorBits(_, _, _)
XorBits(a, b, n) ==
    IF n = 0 THEN 0
    ELSE ((a + b) % 2) + 2 * XorBits(a \div 2, b \div 2, n - 1)

\* x XOR y for bytes x, y, tabulated once at index x * 256 + y + 1.
XorTable ==
    SubSeq([k \in 1..(Byte * Byte) |->
               XorBits((k - 1) \div Byte, (k - 1) % Byte, 8)], 1, Byte * Byte)

Xor16(a, b) ==
    XorTable[(a % Byte) * Byte + (b % Byte) + 1]
    + Byte * XorTable[(a \div Byte) * Byte + (b \div Byte) + 1]

\* d ^= a on one lane
Xor32(x, y) == <<Xor16(x[1], y[1]), Xor16(x[2], y[2])>>

\* x + y mod 2^32 on one lane: no carry leaves the lane.
Add32(x, y) ==
    LET lo == x[1] + y[1]
    IN  <<lo % Half, (x[2] + y[2] + (lo \div Half)) % Half>>

\* The carry out of the 32-bit addition x + y (0 or 1).
Carry32(x, y) == (x[2] + y[2] + ((x[1] + y[1]) \div Half)) \div Half

\* Circular left rotation of a 32-bit lane by n bits, 0 < n <= 16.
Rotl32(x, n) ==
    IF n = 16 THEN <<x[2], x[1]>>
    ELSE <<((x[1] * (2 ^ n)) % Half) + (x[2] \div (2 ^ (16 - n))),
           ((x[2] * (2 ^ n)) % Half) + (x[1] \div (2 ^ (16 - n)))>>

\* The four bytes of a lane as x86 stores them (little-endian).
BytesOfWord(w) == <<w[1] % Byte, w[1] \div Byte, w[2] % Byte, w[2] \div Byte>>

\* The lane held in four consecutive bytes.
WordOfBytes(b) == <<b[1] + Byte * b[2], b[3] + Byte * b[4]>>

\* A finite function on 1..n as a sequence value.
Vec(f, n) == SubSeq(f, 1, n)

-----------------------------------------------------------------------------
(* Constant tables and memory layout                                       *)

\* The add mask with +2/+3 as its second half, as if it were added to the
\* plain state and not to the +0/+1 register.
CC20_COUNTER_ADD_AVX_Absolute == <<0, 0, 1, 0, 2, 0, 3, 0>>

\* The uint64_t entries of the AVX/AVX2 add mask: +0/+1, then +2/+2.
CC20_COUNTER_ADD_AVX == <<0, 0, 1, 0, 2, 0, 2, 0>>

\* The uint64_t entries of the AVX-512 add masks: +0/+1/+2/+3, then +4 x 4.
CC20_COUNTER_ADD_AVX512 == <<0, 0, 1, 0, 2, 0, 3, 0, 4, 0, 4, 0, 4, 0, 4, 0>>

\* The address of CC20_COUNTER_ADD_AVX (64-byte aligned).
chacha20_ctradd_avx == 0

\* The address of CC20_COUNTER_ADD_AVX512 (64-byte aligned).
chacha20_ctradd_avx512 == 64

\* The eight little-endian bytes of a small uint64_t.
BytesOfU64(v) == <<v % Byte, v \div Byte, 0, 0, 0, 0, 0, 0>>

RECURSIVE TableBytes(_)
TableBytes(t) ==
    IF t = <<>> THEN <<>> ELSE BytesOfU64(Head(t)) \o TableBytes(Tail(t))

\* A CipherState is 16 words: 64 bytes.
StateLen == 64

\* The longest keystream a stub writes (the AVX-512 stub's outlen).
MaxOutLen == 1024

NumThreads == 2

Threads == 1..NumThreads

\* The first address after the two tables.
ThreadBase == chacha20_ctradd_avx512 + 8 * Len(CC20_COUNTER_ADD_AVX512)

\* c_rarg0: the caller of thread t keeps its CipherState here ...
StateAddr(t) == ThreadBase + (t - 1) * (StateLen + MaxOutLen)

\* The two argument registers confused: the keystream goes to c_rarg0.
ResultAddrIsState(t) == StateAddr(t)

\* c_rarg1: ... and its keystream buffer here.
ResultAddr(t) == StateAddr(t) + StateLen

MemSize == ThreadBase + NumThreads * (StateLen + MaxOutLen)

\* The n bytes of memory m from address a on.
Bytes(m, a, n) == SubSeq(m, a + 1, a + n)

\* Memory m with the bytes b stored from address a on.
StoreBytes(m, a, b) == SubSeq(m, 1, a) \o b \o SubSeq(m, a + Len(b) + 1, Len(m))

-----------------------------------------------------------------------------
(* Vector instructions                                                     *)

\* Assembler::AVX_128bit / AVX_256bit / AVX_512bit: 128-bit segments held.
Segs(vector_len) ==
    CASE vector_len = "AVX_128bit" -> 1
      [] vector_len = "AVX_256bit" -> 2
      [] vector_len = "AVX_512bit" -> 4

Lanes(vector_len) == 4 * Segs(vector_len)

\* The n 32-bit lanes held in memory m from address a on.
LoadLanes(m, a, n) ==
    Vec([k \in 1..n |-> WordOfBytes(Bytes(m, a + 4 * (k - 1), 4))], n)

\* movdqu xmm, [a] / vmovdqu / evmovdqul: a full-width load.
LoadVector(m, a, vector_len) == LoadLanes(m, a, Lanes(vector_len))

\* A 128-bit load in place of the broadcast: segment 0 is loaded, the
\* segments above it are zeroed.
Broadcast128LowOnly(m, a, vector_len) ==
    LET seg == LoadLanes(m, a, 4)
    IN  Vec([k \in 1..Lanes(vector_len) |->
                IF k <= 4 THEN seg[k] ELSE W(0, 0)], Lanes(vector_len))

\* vbroadcastf128 / evbroadcasti32x4: 16 bytes copied to every segment.
Broadcast128(m, a, vector_len) ==
    LET seg == LoadLanes(m, a, 4)
    IN  Vec([k \in 1..Lanes(vector_len) |-> seg[((k - 1) % 4) + 1]],
            Lanes(vector_len))

\* vpaddd with 64-bit lanes instead (vpaddq): a carry crosses into the odd
\* lane of each pair.
VPaddq(x, y) ==
    Vec([k \in 1..Len(x) |->
            IF k % 2 = 1 THEN Add32(x[k], y[k])
            ELSE LET s == Add32(x[k], y[k])
                     c == Carry32(x[k - 1], y[k - 1])
                 IN  Add32(s, <<c, 0>>)], Len(x))

\* vpaddd dst, x, y: lane-wise addition mod 2^32.
VPaddd(x, y) == Vec([k \in 1..Len(x) |-> Add32(x[k], y[k])], Len(x))

\* The extract with its immediate ignored: always segment 0.
SegmentBytesLow(v, seg) ==
    BytesOfWord(v[1]) \o BytesOfWord(v[2]) \o BytesOfWord(v[3])
    \o BytesOfWord(v[4])

\* The 16 bytes of 128-bit segment seg (0-based) of register value v.
SegmentBytes(v, seg) ==
    BytesOfWord(v[4 * seg + 1]) \o BytesOfWord(v[4 * seg + 2])
    \o BytesOfWord(v[4 * seg + 3]) \o BytesOfWord(v[4 * seg + 4])

-----------------------------------------------------------------------------
(* Register allocation of the two generators                               *)

\* generate_chacha20Block_avx: XMMRegister name -> xmm number.
AvxRegs ==
    [aState |-> 0, bState |-> 1, cState |-> 2, dState |-> 3,
     a1Vec |-> 4, b1Vec |-> 5, c1Vec |-> 6, d1Vec |-> 7,
     a2Vec |-> 8, b2Vec |-> 9, c2Vec |-> 10, d2Vec |-> 11,
     scratch |-> 12, d2State |-> 13]

\* generate_chacha20Block_avx512: XMMRegister name -> xmm number.
Avx512Regs ==
    [aState |-> 0, bState |-> 1, cState |-> 2, dState |-> 3,
     a1Vec |-> 4, b1Vec |-> 5, c1Vec |-> 6, d1Vec |-> 7,
     a2Vec |-> 8, b2Vec |-> 9, c2Vec |-> 10, d2Vec |-> 11,
     a3Vec |-> 12, b3Vec |-> 13, c3Vec |-> 14, d3Vec |-> 15,
     a4Vec |-> 16, b4Vec |-> 17, c4Vec |-> 18, d4Vec |-> 19,
     d2State |-> 20, d3State |-> 21, d4State |-> 22, scratch |-> 23]

\* The registers of the stub that runs with this vector length.
X(vector_len) ==
    IF vector_len = "AVX_512bit" THEN Avx512Regs ELSE AvxRegs

\* The value of register xmm<n> in register file r, and r with it replaced.
Get(r, n) == r[n + 1]

Put(r, n, v) == [r EXCEPT ![n + 1] = v]

\* Lane k of register value v; a VEX/EVEX-encoded write zeroes the bits of
\* the register above its vector length.
Lane(v, k) == IF k <= Len(v) THEN v[k] ELSE W(0, 0)

\* Register xmm<n> as an operand of an instruction of this vector length.
Operand(r, n, vector_len) ==
    Vec([k \in 1..Lanes(vector_len) |-> Lane(Get(r, n), k)],
        Lanes(vector_len))

\* Register groups the stub works on: 1Vec, 2Vec (and 3Vec, 4Vec).
Groups(vector_len) == IF vector_len = "AVX_512bit" THEN 4 ELSE 2

\* The a/b/c/d working registers of group g.
VecRegs(vector_len, g) ==
    LET x == X(vector_len)
    IN  CASE g = 1 -> <<x.a1Vec, x.b1Vec, x.c1Vec, x.d1Vec>>
          [] g = 2 -> <<x.a2Vec, x.b2Vec, x.c2Vec, x.d2Vec>>
          [] g = 3 -> <<x.a3Vec, x.b3Vec, x.c3Vec, x.d3Vec>>
          [] g = 4 -> <<x.a4Vec, x.b4Vec, x.c4Vec, x.d4Vec>>

\* The feed-forward as if every group's fourth register were dState: the
\* blocks after the first get the first block's counter added back.
StateRegsShared(vector_len, g) ==
    LET x == X(vector_len)
    IN  <<x.aState, x.bState, x.cState, x.dState>>

\* The saved start-state registers added back into group g.
StateRegs(vector_len, g) ==
    LET x == X(vector_len)
    IN  CASE g = 1 -> <<x.aState, x.bState, x.cState, x.dState>>
          [] g = 2 -> <<x.aState, x.bState, x.cState, x.d2State>>
          [] g = 3 -> <<x.aState, x.bState, x.cState, x.d3State>>
          [] g = 4 -> <<x.aState, x.bState, x.cState, x.d4State>>

\* Keystream blocks one call produces: one per 128-bit segment per group.
NumBlocks(vector_len) == Groups(vector_len) * Segs(vector_len)

\* outlen as if the AVX2 branch did not set it: 128 on AVX2 too.
OutLenNotRaised(vector_len) ==
    CASE vector_len = "AVX_128bit" -> 128
      [] vector_len = "AVX_256bit" -> 128
      [] vector_len = "AVX_512bit" -> 1024

\* outlen: 128, 256, or the AVX-512 stub's 1024.
OutLen(vector_len) ==
    CASE vector_len = "AVX_128bit" -> 128
      [] vector_len = "AVX_256bit" -> 256
      [] vector_len = "AVX_512bit" -> 1024

-----------------------------------------------------------------------------
(* Straight-line register code                                             *)

\* Exec with the two-operand paddd dst, mem in place of the three-operand
\* vpaddd dst, a, mem: the sum is taken with what dst held before.
ExecDestructiveAdd(r, ins, m, base, vector_len) ==
    CASE ins[1] = "mov" -> Put(r, ins[2], Operand(r, ins[3], vector_len))
      [] ins[1] = "vpaddd" ->
            Put(r, ins[2], VPaddd(Operand(r, ins[3], vector_len),
                                  Operand(r, ins[4], vector_len)))
      [] ins[1] = "vpaddd_mem" ->
            Put(r, ins[2], VPaddd(Operand(r, ins[2], vector_len),
                                  LoadVector(m, base + ins[4], vector_len)))
      [] ins[1] = "load" ->
            Put(r, ins[2], LoadVector(m, base + ins[3], vector_len))

\* One instruction on register file r, with memory m and rax = base:
\*   <<"mov", dst, src>>            movdqu / vmovdqu / evmovdqul dst, src
\*   <<"vpaddd", dst, a, b>>        vpaddd dst, a, b
\*   <<"vpaddd_mem", dst, a, off>>  vpaddd dst, a, Address(rax, off)
\*   <<"load", dst, off>>           evmovdqul dst, Address(rax, off)
Exec(r, ins, m, base, vector_len) ==
    CASE ins[1] = "mov" -> Put(r, ins[2], Operand(r, ins[3], vector_len))
      [] ins[1] = "vpaddd" ->
            Put(r, ins[2], VPaddd(Operand(r, ins[3], vector_len),
                                  Operand(r, ins[4], vector_len)))
      [] ins[1] = "vpaddd_mem" ->
            Put(r, ins[2], VPaddd(Operand(r, ins[3], vector_len),
                                  LoadVector(m, base + ins[4], vector_len)))
      [] ins[1] = "load" ->
            Put(r, ins[2], LoadVector(m, base + ins[3], vector_len))

RECURSIVE ExecAll(_, _, _, _, _)
ExecAll(r, code, m, base, vector_len) ==
    IF code = <<>> THEN r
    ELSE ExecAll(Exec(r, Head(code), m, base, vector_len), Tail(code),
                 m, base, vector_len)

-----------------------------------------------------------------------------
(* The phases of the stub, as functions of the register file and memory    *)

\* The loads with the first two addresses exchanged: aState gets bytes 16..31
\* and bState bytes 0..15.
LoadStateRowExchanged(r, m, state, vector_len, k) ==
    LET x   == X(vector_len)
        dst == <<x.aState, x.bState, x.cState, x.dState>>[k + 1]
        off == <<16, 0, 32, 48>>[k + 1]
    IN  IF vector_len = "AVX_128bit"
        THEN Put(r, dst, LoadVector(m, state + off, vector_len))
        ELSE Put(r, dst, Broadcast128(m, state + off, vector_len))

\* The k-th (0..3) load of the start state: 16 bytes at state + 16 * k go to
\* aState, bState, cState, dState; broadcast to every segment on AVX2/AVX-512.
LoadStateRow(r, m, state, vector_len, k) ==
    LET x   == X(vector_len)
        dst == <<x.aState, x.bState, x.cState, x.dState>>[k + 1]
    IN  IF vector_len = "AVX_128bit"
        THEN Put(r, dst, LoadVector(m, state + 16 * k, vector_len))
        ELSE Put(r, dst, Broadcast128(m, state + 16 * k, vector_len))

\* The counter adds and the copies into the working registers that follow
\* the loads, in program order.
InitWorkingCode(vector_len) ==
    LET x == X(vector_len)
    IN  CASE vector_len = "AVX_128bit" ->
             << <<"mov", x.a1Vec, x.aState>>, <<"mov", x.b1Vec, x.bState>>,
                <<"mov", x.c1Vec, x.cState>>, <<"mov", x.d1Vec, x.dState>>,
                <<"mov", x.a2Vec, x.aState>>, <<"mov", x.b2Vec, x.bState>>,
                <<"mov", x.c2Vec, x.cState>>,
                <<"vpaddd_mem", x.d2State, x.dState, 16>>,
                <<"mov", x.d2Vec, x.d2State>> >>
          [] vector_len = "AVX_256bit" ->
             << <<"vpaddd_mem", x.dState, x.dState, 0>>,
                <<"vpaddd_mem", x.d2State, x.dState, 32>>,
                <<"mov", x.a1Vec, x.aState>>, <<"mov", x.b1Vec, x.bState>>,
                <<"mov", x.c1Vec, x.cState>>, <<"mov", x.d1Vec, x.dState>>,
                <<"mov", x.a2Vec, x.aState>>, <<"mov", x.b2Vec, x.bState>>,
                <<"mov", x.c2Vec, x.cState>>, <<"mov", x.d2Vec, x.d2State>> >>
          [] vector_len = "AVX_512bit" ->
             << <<"vpaddd_mem", x.dState, x.dState, 0>>,
                <<"load", x.scratch, 64>>,
                <<"vpaddd", x.d2State, x.dState, x.scratch>>,
                <<"vpaddd", x.d3State, x.d2State, x.scratch>>,
                <<"vpaddd", x.d4State, x.d3State, x.scratch>>,
                <<"mov", x.a1Vec, x.aState>>, <<"mov", x.b1Vec, x.bState>>,
                <<"mov", x.c1Vec, x.cState>>, <<"mov", x.d1Vec, x.dState>>,
                <<"mov", x.a2Vec, x.aState>>, <<"mov", x.b2Vec, x.bState>>,
                <<"mov", x.c2Vec, x.cState>>, <<"mov", x.d2Vec, x.d2State>>,
                <<"mov", x.a3Vec, x.aState>>, <<"mov", x.b3Vec, x.bState>>,
                <<"mov", x.c3Vec, x.cState>>, <<"mov", x.d3Vec, x.d3State>>,
                <<"mov", x.a4Vec, x.aState>>, <<"mov", x.b4Vec, x.bState>>,
                <<"mov", x.c4Vec, x.cState>>, <<"mov", x.d4Vec, x.d4State>> >>

InitWorking(r, m, base, vector_len) ==
    ExecAll(r, InitWorkingCode(vector_len), m, base, vector_len)

\* QR(a, b, c, d) on four 32-bit words.
QuarterRound(a, b, c, d) ==
    LET a1 == Add32(a, b)
        d1 == Rotl32(Xor32(d, a1), 16)
        c1 == Add32(c, d1)
        b1 == Rotl32(Xor32(b, c1), 12)
        a2 == Add32(a1, b1)
        d2 == Rotl32(Xor32(d1, a2), 8)
        c2 == Add32(c1, d2)
        b2 == Rotl32(Xor32(b1, c2), 7)
    IN  <<a2, b2, c2, d2>>

\* cc20_quarter_round_avx(aVec, bVec, cVec, dVec, scratch, vector_len):
\* QR on every lane of the four row registers q.
cc20_quarter_round_avx(r, q, vector_len) ==
    LET a == Operand(r, q[1], vector_len)
        b == Operand(r, q[2], vector_len)
        c == Operand(r, q[3], vector_len)
        d == Operand(r, q[4], vector_len)
        n == Lanes(vector_len)
        res == Vec([k \in 1..n |-> QuarterRound(a[k], b[k], c[k], d[k])], n)
        row(i) == Vec([k \in 1..n |-> res[k][i]], n)
    IN  [r EXCEPT ![q[1] + 1] = row(1), ![q[2] + 1] = row(2),
                  ![q[3] + 1] = row(3), ![q[4] + 1] = row(4)]

\* Every lane takes the value `by' lanes above it in its 128-bit segment.
RotateLanes(v, by) ==
    Vec([k \in 1..Len(v) |->
            v[4 * ((k - 1) \div 4) + ((k - 1 + by) % 4) + 1]], Len(v))

\* cc20_shift_lane_org(bVec, cVec, dVec, vector_len, colToDiag)
cc20_shift_lane_org(r, q, vector_len, colToDiag) ==
    [r EXCEPT ![q[2] + 1] = RotateLanes(Operand(r, q[2], vector_len),
                                        IF colToDiag THEN 1 ELSE 3),
              ![q[3] + 1] = RotateLanes(Operand(r, q[3], vector_len), 2),
              ![q[4] + 1] = RotateLanes(Operand(r, q[4], vector_len),
                                        IF colToDiag THEN 3 ELSE 1)]

RECURSIVE QuarterRoundGroups(_, _, _)
\* cc20_quarter_round_avx on groups g..1.
QuarterRoundGroups(r, vector_len, g) ==
    IF g = 0 THEN r
    ELSE cc20_quarter_round_avx(QuarterRoundGroups(r, vector_len, g - 1),
                                VecRegs(vector_len, g), vector_len)

RECURSIVE ShiftGroups(_, _, _, _)
\* cc20_shift_lane_org on groups g..1.
ShiftGroups(r, vector_len, g, colToDiag) ==
    IF g = 0 THEN r
    ELSE cc20_shift_lane_org(ShiftGroups(r, vector_len, g - 1, colToDiag),
                             VecRegs(vector_len, g), vector_len, colToDiag)

\* The four vpaddd with the saved registers of the group after g (the first
\* after the last): the d row gets another group's counters added back.
AddStateCodeOtherGroup(vector_len, g) ==
    LET v == VecRegs(vector_len, g)
        s == StateRegs(vector_len, (g % Groups(vector_len)) + 1)
    IN  << <<"vpaddd", v[1], v[1], s[1]>>, <<"vpaddd", v[2], v[2], s[2]>>,
           <<"vpaddd", v[3], v[3], s[3]>>, <<"vpaddd", v[4], v[4], s[4]>> >>

\* The four vpaddd that add the saved start state into group g.
AddStateCode(vector_len, g) ==
    LET v == VecRegs(vector_len, g)
        s == StateRegs(vector_len, g)
    IN  << <<"vpaddd", v[1], v[1], s[1]>>, <<"vpaddd", v[2], v[2], s[2]>>,
           <<"vpaddd", v[3], v[3], s[3]>>, <<"vpaddd", v[4], v[4], s[4]>> >>

RECURSIVE AddStartStateCode(_, _)
AddStartStateCode(vector_len, g) ==
    IF g = 0 THEN <<>>
    ELSE AddStartStateCode(vector_len, g - 1) \o AddStateCode(vector_len, g)

\* "Add the original start state back into the current state."
AddStartState(r, vector_len) ==
    ExecAll(r, AddStartStateCode(vector_len, Groups(vector_len)), <<>>, 0,
            vector_len)

\* cc20_keystream_collate_avx512(aVec, bVec, cVec, dVec, baseAddr, baseOffset):
\* the four segments of each row register, 64 bytes apart; a store is
\* <<offset, register, segment>>.
cc20_keystream_collate_avx512(q, baseOffset) ==
    LET row(i) ==
          << <<baseOffset + 16 * (i - 1), q[i], 0>>,
             <<baseOffset + 16 * (i - 1) + 64, q[i], 1>>,
             <<baseOffset + 16 * (i - 1) + 128, q[i], 2>>,
             <<baseOffset + 16 * (i - 1) + 192, q[i], 3>> >>
    IN  row(1) \o row(2) \o row(3) \o row(4)

\* "Write the data to the keystream array": the stores in program order,
\* grouped by the statement that emits them.
WriteKeystreamCode(vector_len) ==
    LET x == X(vector_len)
    IN  CASE vector_len = "AVX_128bit" ->
             << << <<0, x.a1Vec, 0>> >>, << <<16, x.b1Vec, 0>> >>,
                << <<32, x.c1Vec, 0>> >>, << <<48, x.d1Vec, 0>> >>,
                << <<64, x.a2Vec, 0>> >>, << <<80, x.b2Vec, 0>> >>,
                << <<96, x.c2Vec, 0>> >>, << <<112, x.d2Vec, 0>> >> >>
          [] vector_len = "AVX_256bit" ->
             << << <<0, x.a1Vec, 0>> >>, << <<64, x.a1Vec, 1>> >>,
                << <<16, x.b1Vec, 0>> >>, << <<80, x.b1Vec, 1>> >>,
                << <<32, x.c1Vec, 0>> >>, << <<96, x.c1Vec, 1>> >>,
                << <<48, x.d1Vec, 0>> >>, << <<112, x.d1Vec, 1>> >>,
                << <<128, x.a2Vec, 0>> >>, << <<192, x.a2Vec, 1>> >>,
                << <<144, x.b2Vec, 0>> >>, << <<208, x.b2Vec, 1>> >>,
                << <<160, x.c2Vec, 0>> >>, << <<224, x.c2Vec, 1>> >>,
                << <<176, x.d2Vec, 0>> >>, << <<240, x.d2Vec, 1>> >> >>
          [] vector_len = "AVX_512bit" ->
             << cc20_keystream_collate_avx512(VecRegs(vector_len, 1), 0),
                cc20_keystream_collate_avx512(VecRegs(vector_len, 2), 256),
                cc20_keystream_collate_avx512(VecRegs(vector_len, 3), 512),
                cc20_keystream_collate_avx512(VecRegs(vector_len, 4), 768) >>

RECURSIVE DoStoresFixedBuffer(_, _, _, _)
\* The stores as if the buffer address were fixed when the stub was
\* generated (the first caller's buffer) and c_rarg1 ignored.
DoStoresFixedBuffer(m, r, result, sts) ==
    IF sts = <<>> THEN m
    ELSE LET st == Head(sts)
         IN  DoStoresFixedBuffer(
                 StoreBytes(m, ThreadBase + StateLen + st[1],
                            SegmentBytes(Get(r, st[2]), st[3])),
                 r, result, Tail(sts))

RECURSIVE DoStores(_, _, _, _)
\* Memory m after the stores sts of register file r relative to result.
DoStores(m, r, result, sts) ==
    IF sts = <<>> THEN m
    ELSE LET st == Head(sts)
         IN  DoStores(StoreBytes(m, result + st[1],
                                 SegmentBytes(Get(r, st[2]), st[3])),
                      r, result, Tail(sts))

\* The <<address, length>> of each store of sts.
StoreLog(result, sts) == Vec([k \in 1..Len(sts) |-> <<result + sts[k][1], 16>>], Len(sts))

-----------------------------------------------------------------------------
(* The scalar ChaCha20 block function                                      *)

\* QR applied in place to the words with (0-based) indices i, j, k, l.
QRAt(s, i, j, k, l) ==
    LET q == QuarterRound(s[i + 1], s[j + 1], s[k + 1], s[l + 1])
    IN  [s EXCEPT ![i + 1] = q[1], ![j + 1] = q[2],
                  ![k + 1] = q[3], ![l + 1] = q[4]]

ColumnRoundRef(s) ==
    QRAt(QRAt(QRAt(QRAt(s, 0, 4, 8, 12), 1, 5, 9, 13), 2, 6, 10, 14),
         3, 7, 11, 15)

DiagonalRoundRef(s) ==
    QRAt(QRAt(QRAt(QRAt(s, 0, 5, 10, 15), 1, 6, 11, 12), 2, 7, 8, 13),
         3, 4, 9, 14)

RECURSIVE DoubleRounds(_, _)
\* n double rounds on s (the test on t makes TLC finish one double round
\* before it starts the next).
DoubleRounds(s, n) ==
    IF n = 0 THEN s
    ELSE LET t == DiagonalRoundRef(ColumnRoundRef(s))
         IN  IF Len(t) = 16 THEN DoubleRounds(t, n - 1) ELSE t

\* The 16 output words for start state s: 10 double rounds, feed-forward.
ChaCha20Block(s) ==
    LET w == DoubleRounds(s, 10)
    IN  Vec([j \in 1..16 |-> Add32(w[j], s[j])], 16)

\* State s with its counter word (word 12) advanced by i < 2^16, mod 2^32.
WithCounter(s, i) == [s EXCEPT ![13] = Add32(@, W(0, i))]

RECURSIVE Serialize(_)
\* The words ws as little-endian bytes.
Serialize(ws) ==
    IF ws = <<>> THEN <<>> ELSE BytesOfWord(Head(ws)) \o Serialize(Tail(ws))

RECURSIVE ScalarKeystream(_, _, _)
\* Blocks i..n-1 of the scalar keystream of start state s.
ScalarKeystream(s, i, n) ==
    IF i >= n THEN <<>>
    ELSE Serialize(ChaCha20Block(WithCounter(s, i)))
         \o ScalarKeystream(s, i + 1, n)

-----------------------------------------------------------------------------
(* The callers: the CipherStates and CPUs they use                         *)

\* "expand 32-byte k"
Sigma == <<W(24944, 30821), W(13088, 25710), W(31074, 11570), W(27424, 25972)>>

ZeroKey == [k \in 1..8 |-> W(0, 0)]

\* The key bytes 00 01 .. 1f as little-endian words.
CountingKey ==
    [k \in 1..8 |-> W((4 * k - 1) * Byte + (4 * k - 2),
                      (4 * k - 3) * Byte + (4 * k - 4))]

ZeroNonce == <<W(0, 0), W(0, 0), W(0, 0)>>

\* The nonce bytes 00 00 00 09 00 00 00 4a 00 00 00 00.
SomeNonce == <<W(2304, 0), W(18944, 0), W(0, 0)>>

\* Counter words: 0, 1, and values 4, 2 and 1 below 2^32.
Counters == {W(0, 0), W(0, 1), W(65535, 65532), W(65535, 65534), W(65535, 65535)}

MkState(key, counter, nonce) == Vec(Sigma \o key \o <<counter>> \o nonce, 16)

\* A state that is no ChaCha20 state at all: sixteen words 0xFFFFFFFF.
AllOnes == Vec([j \in 1..16 |-> W(65535, 65535)], 16)

AllStates ==
    {MkState(ZeroKey, c, ZeroNonce) : c \in Counters}
    \cup {MkState(CountingKey, c, SomeNonce) : c \in Counters}
    \cup {AllOnes}

\* The states used where several calls are combined.
FewStates ==
    {MkState(CountingKey, W(0, 1), SomeNonce),
     MkState(CountingKey, W(65535, 65535), SomeNonce)}

\* What VM_Version reports: AVX only, AVX and AVX2, or EVEX as well.
AllCpus ==
    {[avx |-> TRUE, avx2 |-> FALSE, evex |-> FALSE],
     [avx |-> TRUE, avx2 |-> TRUE, evex |-> FALSE],
     [avx |-> TRUE, avx2 |-> TRUE, evex |-> TRUE]}

\* generate_chacha_stubs and the choice of vector_len in
\* generate_chacha20Block_avx: the stub installed on this CPU.
generate_chacha_stubs(cpu) ==
    IF cpu.evex THEN "AVX_512bit"
    ELSE IF cpu.avx2 THEN "AVX_256bit"
    ELSE "AVX_128bit"

NoCall == [state |-> <<>>, vector_len |-> "none", cap |-> 0]

\* What the registers xmm0..xmm23 hold before the first call: the same junk
\* word in all 16 lanes.
JunkRegs(w) == Vec([n \in 1..24 |-> Vec([k \in 1..16 |-> w], 16)], 24)

-----------------------------------------------------------------------------
(* Actions                                                                 *)

\* The caller of thread t stores a CipherState at c_rarg0, supplies a buffer
\* of cap bytes at c_rarg1 (short by `short' bytes of what the stub writes)
\* and calls the stub.
Call(t) ==
    /\ pc[t] = "idle"
    /\ callsLeft[t] > 0
    /\ \E st \in menu[t].states, cpu \in menu[t].cpus, short \in menu[t].short :
         LET vl == generate_chacha_stubs(cpu)
         IN  /\ call' = [call EXCEPT ![t] =
                           [state |-> st, vector_len |-> vl,
                            cap |-> OutLen(vl) - short]]
             /\ mem' = StoreBytes(mem, StateAddr(t), Serialize(st))
    /\ callsLeft' = [callsLeft EXCEPT ![t] = @ - 1]
    /\ stores' = [stores EXCEPT ![t] = <<>>]
    /\ pc' = [pc EXCEPT ![t] = "enter"]
    /\ UNCHANGED codecVars
    /\ UNCHANGED <<regs, rax, loopCounter, idx, history, menu>>

\* enter(); lea(rax, ExternalAddress(chacha20_ctradd_avx[512]()))
Enter(t) ==
    /\ pc[t] = "enter"
    /\ rax' = [rax EXCEPT ![t] =
                 IF call[t].vector_len = "AVX_512bit"
                 THEN chacha20_ctradd_avx512 ELSE chacha20_ctradd_avx]
    /\ idx' = [idx EXCEPT ![t] = 0]
    /\ pc' = [pc EXCEPT ![t] = "load"]
    /\ UNCHANGED codecVars
    /\ UNCHANGED <<mem, regs, loopCounter, call, stores, callsLeft, history,
                   menu>>

\* One movdqu / vbroadcastf128 / evbroadcasti32x4 from the state array.
LoadState(t) ==
    /\ pc[t] = "load"
    /\ regs' = [regs EXCEPT ![t] =
                  LoadStateRow(@, mem, StateAddr(t), call[t].vector_len,
                               idx[t])]
    /\ idx' = [idx EXCEPT ![t] = IF @ = 3 THEN 0 ELSE @ + 1]
    /\ pc' = [pc EXCEPT ![t] = IF idx[t] = 3 THEN "init" ELSE "load"]
    /\ UNCHANGED codecVars
    /\ UNCHANGED <<mem, rax, loopCounter, call, stores, callsLeft, history,
                   menu>>

\* The set-up with the loop counter set to the number of rounds, 20, where
\* the loop body is a double round.
InitWorkingRegsTwenty(t) ==
    /\ pc[t] = "init"
    /\ regs' = [regs EXCEPT ![t] =
                  InitWorking(@, mem, rax[t], call[t].vector_len)]
    /\ loopCounter' = [loopCounter EXCEPT ![t] = 20]
    /\ pc' = [pc EXCEPT ![t] = "qr_col"]
    /\ UNCHANGED codecVars
    /\ UNCHANGED <<mem, rax, idx, call, stores, callsLeft, history, menu>>

\* The counter adds, the copies to the working registers, and
\* movl(loopCounter, 10).
InitWorkingRegs(t) ==
    /\ pc[t] = "init"
    /\ regs' = [regs EXCEPT ![t] =
                  InitWorking(@, mem, rax[t], call[t].vector_len)]
    /\ loopCounter' = [loopCounter EXCEPT ![t] = 10]
    /\ pc' = [pc EXCEPT ![t] = "qr_col"]
    /\ UNCHANGED codecVars
    /\ UNCHANGED <<mem, rax, idx, call, stores, callsLeft, history, menu>>

\* L_twoRounds: cc20_quarter_round_avx on each group, columns.
ColumnRound(t) ==
    /\ pc[t] = "qr_col"
    /\ regs' = [regs EXCEPT ![t] =
                  QuarterRoundGroups(@, call[t].vector_len,
                                     Groups(call[t].vector_len))]
    /\ pc' = [pc EXCEPT ![t] = "to_diag"]
    /\ UNCHANGED codecVars
    /\ UNCHANGED <<mem, rax, loopCounter, idx, call, stores, callsLeft,
                   history, menu>>

\* cc20_shift_lane_org(..., true) on each group.
ShiftToDiagonal(t) ==
    /\ pc[t] = "to_diag"
    /\ regs' = [regs EXCEPT ![t] =
                  ShiftGroups(@, call[t].vector_len,
                              Groups(call[t].vector_len), TRUE)]
    /\ pc' = [pc EXCEPT ![t] = "qr_diag"]
    /\ UNCHANGED codecVars
    /\ UNCHANGED <<mem, rax, loopCounter, idx, call, stores, callsLeft,
                   history, menu>>

\* cc20_quarter_round_avx on each group, diagonals.
DiagonalRound(t) ==
    /\ pc[t] = "qr_diag"
    /\ regs' = [regs EXCEPT ![t] =
                  QuarterRoundGroups(@, call[t].vector_len,
                                     Groups(call[t].vector_len))]
    /\ pc' = [pc EXCEPT ![t] = "to_col"]
    /\ UNCHANGED codecVars
    /\ UNCHANGED <<mem, rax, loopCounter, idx, call, stores, callsLeft,
                   history, menu>>

\* The second lane shift with colToDiag = true again: the rows are rotated a
\* second time the same way and not back.
ShiftToColumnSameWay(t) ==
    /\ pc[t] = "to_col"
    /\ regs' = [regs EXCEPT ![t] =
                  ShiftGroups(@, call[t].vector_len,
                              Groups(call[t].vector_len), TRUE)]
    /\ pc' = [pc EXCEPT ![t] = "dec"]
    /\ UNCHANGED codecVars
    /\ UNCHANGED <<mem, rax, loopCounter, idx, call, stores, callsLeft,
                   history, menu>>

\* cc20_shift_lane_org(..., false) on each group.
ShiftToColumn(t) ==
    /\ pc[t] = "to_col"
    /\ regs' = [regs EXCEPT ![t] =
                  ShiftGroups(@, call[t].vector_len,
                              Groups(call[t].vector_len), FALSE)]
    /\ pc' = [pc EXCEPT ![t] = "dec"]
    /\ UNCHANGED codecVars
    /\ UNCHANGED <<mem, rax, loopCounter, idx, call, stores, callsLeft,
                   history, menu>>

\* decrement(loopCounter); jcc(Assembler::notZero, L_twoRounds)
DecrementAndBranch(t) ==
    /\ pc[t] = "dec"
    /\ loopCounter' = [loopCounter EXCEPT ![t] = @ - 1]
    /\ pc' = [pc EXCEPT ![t] = IF loopCounter[t] - 1 # 0 THEN "qr_col"
                                                       ELSE "add"]
    /\ UNCHANGED codecVars
    /\ UNCHANGED <<mem, regs, rax, idx, call, stores, callsLeft, history,
                   menu>>

\* The vpaddd of the saved start state into every working register.
AddState(t) ==
    /\ pc[t] = "add"
    /\ regs' = [regs EXCEPT ![t] = AddStartState(@, call[t].vector_len)]
    /\ idx' = [idx EXCEPT ![t] = 0]
    /\ pc' = [pc EXCEPT ![t] = "store"]
    /\ UNCHANGED codecVars
    /\ UNCHANGED <<mem, rax, loopCounter, call, stores, callsLeft, history,
                   menu>>

\* A write-out that stops at the end of the caller's buffer: stores that
\* would cross call[t].cap are dropped.
WriteKeystreamTruncating(t) ==
    /\ pc[t] = "store"
    /\ LET code == WriteKeystreamCode(call[t].vector_len)
           sts  == SelectSeq(code[idx[t] + 1],
                             LAMBDA st : st[1] + 16 <= call[t].cap)
       IN  /\ mem' = DoStores(mem, regs[t], ResultAddr(t), sts)
           /\ stores' = [stores EXCEPT ![t] = @ \o StoreLog(ResultAddr(t), sts)]
           /\ idx' = [idx EXCEPT ![t] = IF @ + 1 = Len(code) THEN 0 ELSE @ + 1]
           /\ pc' = [pc EXCEPT ![t] = IF idx[t] + 1 = Len(code) THEN "ret"
                                                                ELSE "store"]
    /\ UNCHANGED codecVars
    /\ UNCHANGED <<regs, rax, loopCounter, call, callsLeft, history, menu>>

\* The next store statement of the keystream write-out.
WriteKeystream(t) ==
    /\ pc[t] = "store"
    /\ LET code == WriteKeystreamCode(call[t].vector_len)
           sts  == code[idx[t] + 1]
       IN  /\ mem' = DoStores(mem, regs[t], ResultAddr(t), sts)
           /\ stores' = [stores EXCEPT ![t] = @ \o StoreLog(ResultAddr(t), sts)]
           /\ idx' = [idx EXCEPT ![t] = IF @ + 1 = Len(code) THEN 0 ELSE @ + 1]
           /\ pc' = [pc EXCEPT ![t] = IF idx[t] + 1 = Len(code) THEN "ret"
                                                                ELSE "store"]
    /\ UNCHANGED codecVars
    /\ UNCHANGED <<regs, rax, loopCounter, call, callsLeft, history, menu>>

\* mov64(rax, outlen); leave(); ret(0)
Ret(t) ==
    /\ pc[t] = "ret"
    /\ rax' = [rax EXCEPT ![t] = OutLen(call[t].vector_len)]
    /\ pc' = [pc EXCEPT ![t] = "done"]
    /\ UNCHANGED codecVars
    /\ UNCHANGED <<mem, regs, loopCounter, idx, call, stores, callsLeft,
                   history, menu>>

\* Back in the caller, which takes rax bytes of keystream from its buffer.
Return(t) ==
    /\ pc[t] = "done"
    /\ history' = Append(history,
                         [thread |-> t, state |-> call[t].state,
                          vector_len |-> call[t].vector_len,
                          out |-> Bytes(mem, ResultAddr(t), rax[t]),
                          ret |-> rax[t]])
    /\ pc' = [pc EXCEPT ![t] = "idle"]
    /\ UNCHANGED codecVars
    /\ UNCHANGED <<mem, regs, rax, loopCounter, idx, call, stores, callsLeft,
                   menu>>

Next ==
    \E t \in Threads :
        \/ Call(t)
        \/ Enter(t)
        \/ LoadState(t)
        \/ InitWorkingRegs(t)
        \/ ColumnRound(t)
        \/ ShiftToDiagonal(t)
        \/ DiagonalRound(t)
        \/ ShiftToColumn(t)
        \/ DecrementAndBranch(t)
        \/ AddState(t)
        \/ WriteKeystream(t)
        \/ Ret(t)
        \/ Return(t)

-----------------------------------------------------------------------------
(* Specifications                                                          *)

\* Memory before any call: the two tables, then every caller's region
\* filled with the byte fill.
InitMem(fill) ==
    TableBytes(CC20_COUNTER_ADD_AVX) \o TableBytes(CC20_COUNTER_ADD_AVX512)
    \o [a \in 1..(MemSize - ThreadBase) |-> fill]

\* Calls each caller makes in a row where calls are combined.
MaxCalls == 3

\* Before the first call memory outside the tables and every register hold
\* the byte fill throughout.
InitWith(calls, menus, fills) ==
    /\ \E fill \in fills :
         /\ mem = InitMem(fill)
         /\ regs = [t \in Threads |->
                      JunkRegs(W(fill * Byte + fill, fill * Byte + fill))]
    /\ rax = [t \in Threads |-> 0]
    /\ loopCounter = [t \in Threads |-> 0]
    /\ pc = [t \in Threads |-> "idle"]
    /\ idx = [t \in Threads |-> 0]
    /\ call = [t \in Threads |-> NoCall]
    /\ stores = [t \in Threads |-> <<>>]
    /\ callsLeft = calls
    /\ history = <<>>
    /\ menu = menus
    /\ writer = NoStream
    /\ reader = NoStream
    /\ written = <<>>
    /\ readBack = <<>>

NoMenu == [states |-> {}, cpus |-> {}, short |-> {}]

\* One call by thread 1, with any state, on any CPU, into a buffer that is
\* long enough or one block short.
Init ==
    InitWith([t \in Threads |-> IF t = 1 THEN 1 ELSE 0],
             [t \in Threads |->
                 IF t = 1 THEN [states |-> AllStates, cpus |-> AllCpus,
                                short |-> {0, 64}]
                 ELSE NoMenu],
             {0, 204})

Spec == Init /\ [][Next]_vars

\* MaxCalls calls in a row by thread 1.
InitSeq ==
    InitWith([t \in Threads |-> IF t = 1 THEN MaxCalls ELSE 0],
             [t \in Threads |->
                 IF t = 1 THEN [states |-> FewStates, cpus |-> AllCpus,
                                short |-> {0}]
                 ELSE NoMenu],
             {204})

SpecSeq == InitSeq /\ [][Next]_vars

\* One call by each of two threads, running concurrently. The stub is
\* generated once for the CPU of the machine, so both threads run the same one.
InitConc ==
    \E active \in SUBSET Threads, cpu \in AllCpus :
        /\ Cardinality(active) = 2
        /\ InitWith([t \in Threads |-> IF t \in active THEN 1 ELSE 0],
                    [t \in Threads |->
                        IF t \in active
                        THEN [states |-> {CHOOSE s \in FewStates :
                                 (s[13] = W(0, 1)) <=> (t % 2 = 1)},
                              cpus |-> {cpu}, short |-> {0}]
                        ELSE NoMenu],
                    {204})

SpecConc == InitConc /\ [][Next]_vars

-----------------------------------------------------------------------------
(* Views of the state used by the properties                               *)

\* The states a caller uses, in some order.
RECURSIVE SeqOf(_)
SeqOf(S) ==
    IF S = {} THEN <<>>
    ELSE LET x == CHOOSE y \in S : TRUE IN <<x>> \o SeqOf(S \ {x})

StateList == SeqOf(AllStates)

\* The 16-block scalar keystream of each state of StateList, computed once.
ScalarTable ==
    Vec([k \in 1..Len(StateList) |-> ScalarKeystream(StateList[k], 0, 16)],
        Len(StateList))

\* The first n blocks of the scalar keystream of start state s: n
\* independent block computations with counters c, c+1, ..., c+n-1.
Reference(s, n) ==
    SubSeq(ScalarTable[CHOOSE k \in 1..Len(StateList) : StateList[k] = s],
           1, 64 * n)

\* Word j (0..15) of block i (0..N-1) as the working registers hold it:
\* block i is segment i % Segs of group i \div Segs + 1, row j \div 4 of it
\* holds words 4 * (j \div 4) .. 4 * (j \div 4) + 3.
WorkingWord(r, vector_len, i, j) ==
    Get(r, VecRegs(vector_len, (i \div Segs(vector_len)) + 1)[(j \div 4) + 1])
       [4 * (i % Segs(vector_len)) + (j % 4) + 1]

WorkingBlock(r, vector_len, i) ==
    Vec([j \in 1..16 |-> WorkingWord(r, vector_len, i, j - 1)], 16)

\* Thread t is in a call and about to run the first round.
BeforeFirstRound(t) == pc[t] = "qr_col" /\ loopCounter[t] = 10

\* The stores of thread t so far lie in [lo, hi) and no two overlap.
StoresWithin(t, lo, hi) ==
    \A k \in 1..Len(stores[t]) :
        /\ lo <= stores[t][k][1]
        /\ stores[t][k][1] + stores[t][k][2] <= hi
        /\ \A l \in 1..(k - 1) :
              \/ stores[t][l][1] + stores[t][l][2] <= stores[t][k][1]
              \/ stores[t][k][1] + stores[t][k][2] <= stores[t][l][1]

RECURSIVE StoredBytes(_)
\* The number of bytes the stores of log st wrote.
StoredBytes(st) == IF st = <<>> THEN 0 ELSE Head(st)[2] + StoredBytes(Tail(st))

-----------------------------------------------------------------------------
(* Properties                                                              *)

\* C1: Reference equivalence. When a call has returned, the N * 64 bytes at
\* the result address are the concatenation of N scalar ChaCha20 blocks (10
\* double rounds plus feed-forward) for counters c, c+1, ..., c+N-1 mod 2^32,
\* for N = 2 (AVX), 4 (AVX2) and 16 (AVX-512).
C1_ReferenceEquivalence ==
    \A t \in Threads :
        pc[t] = "done" =>
            Bytes(mem, ResultAddr(t), 64 * NumBlocks(call[t].vector_len))
            = Reference(call[t].state, NumBlocks(call[t].vector_len))

\* A returned AVX-512 call whose counter wrapped inside its 16 blocks.
C1_Witness ==
    \E t \in Threads :
        /\ pc[t] = "done"
        /\ call[t].vector_len = "AVX_512bit"
        /\ call[t].state[13] = W(65535, 65532)
        /\ NumBlocks(call[t].vector_len) = 16
        /\ Bytes(mem, ResultAddr(t), 1024) = Reference(call[t].state, 16)

\* C2: The value returned is N * 64 and is the number of bytes written: 128
\* on AVX, 256 on AVX2, 1024 on AVX-512; every byte of [0, N * 64) of the
\* buffer is stored exactly once and no byte anywhere else is stored.
C2_ReturnValue ==
    \A t \in Threads :
        pc[t] = "done" =>
            /\ rax[t] = 64 * NumBlocks(call[t].vector_len)
            /\ rax[t] = CASE call[t].vector_len = "AVX_128bit" -> 128
                          [] call[t].vector_len = "AVX_256bit" -> 256
                          [] call[t].vector_len = "AVX_512bit" -> 1024
            /\ StoredBytes(stores[t]) = rax[t]
            /\ StoresWithin(t, ResultAddr(t), ResultAddr(t) + rax[t])

\* A returned AVX2 call: 256 returned, 16 stores of 16 bytes made.
C2_Witness ==
    \E t \in Threads :
        /\ pc[t] = "done"
        /\ call[t].vector_len = "AVX_256bit"
        /\ rax[t] = 256
        /\ Len(stores[t]) = 16

\* C3: Counter law. Before the first round, working block i (0..N-1) equals
\* the caller's CipherState in every word but word 12, which is the state's
\* counter plus i mod 2^32, within and across register groups.
C3_CounterLaw ==
    \A t \in Threads :
        BeforeFirstRound(t) =>
            \A i \in 0..(NumBlocks(call[t].vector_len) - 1) :
                \A j \in 0..15 :
                    WorkingWord(regs[t], call[t].vector_len, i, j)
                    = IF j = 12 THEN Add32(call[t].state[13], W(0, i))
                      ELSE call[t].state[j + 1]

\* The AVX-512 stub before its first round: block 15 (group 4, segment 3)
\* carries counter + 15.
C3_Witness ==
    \E t \in Threads :
        /\ BeforeFirstRound(t)
        /\ call[t].vector_len = "AVX_512bit"
        /\ call[t].state[13] = W(0, 1)
        /\ WorkingWord(regs[t], "AVX_512bit", 15, 12) = W(0, 16)

\* C4: Counter wraparound. With counter word 0xFFFFFFFF, block 1 runs with
\* counter 0 and block i with i - 1; word 13 (the first nonce word) is not
\* touched by a carry; and the call returns N * 64 with block 1 of the
\* keystream being the scalar block for counter 0.
C4_CounterWraparound ==
    \A t \in Threads :
        call[t].state # <<>> /\ call[t].state[13] = W(65535, 65535) =>
            /\ BeforeFirstRound(t) =>
                 \A i \in 1..(NumBlocks(call[t].vector_len) - 1) :
                     /\ WorkingWord(regs[t], call[t].vector_len, i, 12)
                        = W(0, i - 1)
                     /\ WorkingWord(regs[t], call[t].vector_len, i, 13)
                        = call[t].state[14]
            /\ pc[t] = "done" =>
                 /\ rax[t] = 64 * NumBlocks(call[t].vector_len)
                 /\ Bytes(mem, ResultAddr(t) + 64, 64)
                    = Serialize(ChaCha20Block(
                          [call[t].state EXCEPT ![13] = W(0, 0)]))

\* An AVX call with counter 0xFFFFFFFF has returned 128.
C4_Witness ==
    \E t \in Threads :
        /\ pc[t] = "done"
        /\ call[t].vector_len = "AVX_128bit"
        /\ call[t].state[13] = W(65535, 65535)
        /\ call[t].state[14] = W(2304, 0)
        /\ rax[t] = 128

\* C5: Output layout. Once the keystream is written, bytes
\* [64 * i + 4 * j, 64 * i + 4 * j + 4) of the buffer hold, little-endian,
\* word j of block i of the working registers, and that block is the
\* finalized block for counter c + i: the 128-bit segments of the row
\* registers are de-interleaved into ascending counter order.
C5_OutputLayout ==
    \A t \in Threads :
        pc[t] \in {"ret", "done"} =>
            \A i \in 0..(NumBlocks(call[t].vector_len) - 1) :
                /\ \A j \in 0..15 :
                      Bytes(mem, ResultAddr(t) + 64 * i + 4 * j, 4)
                      = BytesOfWord(WorkingWord(regs[t], call[t].vector_len,
                                                i, j))
                /\ Serialize(WorkingBlock(regs[t], call[t].vector_len, i))
                   = SubSeq(Reference(call[t].state, i + 1),
                            64 * i + 1, 64 * i + 64)

\* The AVX2 stub has written its keystream: block 1 is the high half of the
\* first register set, block 2 the low half of the second.
C5_Witness ==
    \E t \in Threads :
        /\ pc[t] = "ret"
        /\ call[t].vector_len = "AVX_256bit"
        /\ Bytes(mem, ResultAddr(t) + 64, 4)
           = BytesOfWord(Get(regs[t], AvxRegs.a1Vec)[5])
        /\ Bytes(mem, ResultAddr(t) + 128, 4)
           = BytesOfWord(Get(regs[t], AvxRegs.a2Vec)[1])

-----------------------------------------------------------------------------
(* One call run alone                                                      *)

RECURSIVE RunSteps(_, _, _, _, _)
\* The stub's steps from position p on, in program order, on register file r
\* and memory m; n is the loop counter. (Each step is computed before the
\* next one is started.)
RunSteps(p, r, m, n, vector_len) ==
    LET g    == Groups(vector_len)
        base == IF vector_len = "AVX_512bit" THEN chacha20_ctradd_avx512
                ELSE chacha20_ctradd_avx
        code == WriteKeystreamCode(vector_len)
        r1 == CASE p \in 0..3 ->
                      LoadStateRow(r, m, StateAddr(1), vector_len, p)
                [] p = 4 -> InitWorking(r, m, base, vector_len)
                [] p \in {5, 7} -> QuarterRoundGroups(r, vector_len, g)
                [] p = 6 -> ShiftGroups(r, vector_len, g, TRUE)
                [] p = 8 -> ShiftGroups(r, vector_len, g, FALSE)
                [] p = 9 -> AddStartState(r, vector_len)
                [] OTHER -> r
        m1 == IF p >= 10 /\ p - 10 < Len(code)
              THEN DoStores(m, r, ResultAddr(1), code[p - 9])
              ELSE m
        p1 == IF p = 8 /\ n > 1 THEN 5 ELSE p + 1
        n1 == IF p = 8 THEN n - 1 ELSE n
    IN  IF p >= 10 + Len(code) THEN m
        ELSE IF Len(r1) = Len(r) /\ Len(m1) = Len(m)
             THEN RunSteps(p1, r1, m1, n1, vector_len)
             ELSE m

\* What the stub gives for CipherState st when it is the only call that ever
\* runs: thread 1's steps in program order on a fresh memory.
RunAlone(st, vector_len) ==
    LET m0 == StoreBytes(InitMem(0), StateAddr(1), Serialize(st))
        m1 == RunSteps(0, JunkRegs(W(0, 0)), m0, 10, vector_len)
    IN  [state |-> st, vector_len |-> vector_len,
         out |-> Bytes(m1, ResultAddr(1), OutLen(vector_len)),
         ret |-> OutLen(vector_len)]

FewStateList == SeqOf(FewStates)

VectorLens == <<"AVX_128bit", "AVX_256bit", "AVX_512bit">>

\* RunAlone for each state of FewStates and each stub, computed once.
AloneTable ==
    Vec([k \in 1..(3 * Len(FewStateList)) |->
            RunAlone(FewStateList[((k - 1) \div 3) + 1],
                     VectorLens[((k - 1) % 3) + 1])],
        3 * Len(FewStateList))

Alone(st, vector_len) ==
    AloneTable[CHOOSE k \in 1..Len(AloneTable) :
                  /\ AloneTable[k].state = st
                  /\ AloneTable[k].vector_len = vector_len]

-----------------------------------------------------------------------------
(* Properties of several calls                                             *)

Min(a, b) == IF a <= b THEN a ELSE b

\* C6: Tier independence of content. Two returned calls with the same
\* CipherState, whatever their stubs, agree on the first min(N1, N2) * 64
\* bytes of their outputs: the AVX output is a prefix of the AVX2 output,
\* which is a prefix of the AVX-512 output.
C6_TierIndependence ==
    \A i, j \in 1..Len(history) :
        history[i].state = history[j].state =>
            SubSeq(history[i].out, 1, Min(history[i].ret, history[j].ret))
            = SubSeq(history[j].out, 1, Min(history[i].ret, history[j].ret))

\* The same state went through the AVX stub and then the AVX-512 stub.
C6_Witness ==
    /\ Len(history) >= 2
    /\ history[1].state = history[2].state
    /\ history[1].vector_len = "AVX_128bit"
    /\ history[2].vector_len = "AVX_512bit"
    /\ history[1].out = SubSeq(history[2].out, 1, 128)

\* C7 (as stated): a call whose buffer is shorter than N * 64 bytes fails
\* fast; it stores nothing and never returns a byte count.
C7_FailsFastOnShortBuffer ==
    \A t \in Threads :
        call[t] # NoCall /\ call[t].cap < OutLen(call[t].vector_len) =>
            /\ stores[t] = <<>>
            /\ pc[t] # "done"

\* C7 (restated for the code): the stub is given no capacity and checks none. A call
\* whose buffer is shorter than N * 64 bytes runs like any other: it stores
\* the whole keystream from the result address on, the bytes from cap to
\* N * 64 beyond the end of the buffer, and returns N * 64.
C7_NoCapacityCheck ==
    \A t \in Threads :
        pc[t] = "done" /\ call[t].cap < OutLen(call[t].vector_len) =>
            /\ rax[t] = OutLen(call[t].vector_len)
            /\ Bytes(mem, ResultAddr(t), OutLen(call[t].vector_len))
               = Reference(call[t].state, NumBlocks(call[t].vector_len))
            /\ \A a \in call[t].cap..(OutLen(call[t].vector_len) - 1) :
                  \E k \in 1..Len(stores[t]) :
                      /\ stores[t][k][1] <= ResultAddr(t) + a
                      /\ ResultAddr(t) + a < stores[t][k][1] + stores[t][k][2]

\* An AVX-512 call with a 960-byte buffer has returned 1024.
C7_Witness ==
    \E t \in Threads :
        /\ pc[t] = "done"
        /\ call[t].vector_len = "AVX_512bit"
        /\ call[t].cap = 960
        /\ rax[t] = 1024

\* C8: The CipherState is read-only. From the call on, and after it, the 64
\* bytes at the state address are the bytes the caller put there; the
\* counter word is not advanced.
C8_StateReadOnly ==
    \A t \in Threads :
        call[t].state # <<>> =>
            Bytes(mem, StateAddr(t), StateLen) = Serialize(call[t].state)

\* A call has returned and the counter word in memory is still the caller's.
C8_Witness ==
    \E t \in Threads :
        /\ pc[t] = "done"
        /\ call[t].vector_len = "AVX_256bit"
        /\ call[t].state[13] = W(0, 1)
        /\ WordOfBytes(Bytes(mem, StateAddr(t) + 48, 4)) = W(0, 1)

\* C9: Concurrent calls do not interfere. With two calls interleaved in any
\* way, each on its own CipherState and buffer, the output and return value
\* of a call that has returned are those of the same call run alone; every
\* store of a thread lies in its own buffer, and the two tables hold what
\* they held at the start.
C9_NoInterference ==
    /\ \A t \in Threads :
          /\ pc[t] = "done" =>
                /\ rax[t] = Alone(call[t].state, call[t].vector_len).ret
                /\ Bytes(mem, ResultAddr(t), rax[t])
                   = Alone(call[t].state, call[t].vector_len).out
          /\ \A k \in 1..Len(stores[t]) :
                /\ ResultAddr(t) <= stores[t][k][1]
                /\ stores[t][k][1] + stores[t][k][2] <= ResultAddr(t) + MaxOutLen
    /\ \A k \in 1..Len(history) :
          /\ history[k].ret = Alone(history[k].state, history[k].vector_len).ret
          /\ history[k].out = Alone(history[k].state, history[k].vector_len).out
    /\ Bytes(mem, 0, ThreadBase)
       = TableBytes(CC20_COUNTER_ADD_AVX) \o TableBytes(CC20_COUNTER_ADD_AVX512)

\* Thread 1 has returned from the AVX-512 stub while thread 2 is in the
\* middle of writing its own AVX-512 keystream.
C9_Witness ==
    /\ pc[1] = "done"
    /\ call[1].vector_len = "AVX_512bit"
    /\ pc[2] = "store"
    /\ idx[2] = 2
    /\ call[2].vector_len = "AVX_512bit"
    /\ call[2].state # call[1].state
    /\ Bytes(mem, ResultAddr(1), 1024) = Alone(call[1].state, "AVX_512bit").out

\* C10: Determinism with no hidden state. In a sequence of calls, two calls
\* with the same CipherState and the same stub return the same bytes and the
\* same value, whatever calls ran before or between them and whatever the
\* buffer and the registers held.
C10_Determinism ==
    \A i, j \in 1..Len(history) :
        /\ history[i].state = history[j].state
        /\ history[i].vector_len = history[j].vector_len
        => /\ history[i].out = history[j].out
           /\ history[i].ret = history[j].ret

\* The same AVX2 call was made twice, with an AVX-512 call on another state
\* between the two, the later ones over the registers and the buffer the
\* earlier ones left.
C10_Witness ==
    /\ Len(history) = 3
    /\ history[1].state = history[3].state
    /\ history[1].vector_len = "AVX_256bit"
    /\ history[3].vector_len = "AVX_256bit"
    /\ history[2].state # history[1].state
    /\ history[2].vector_len = "AVX_512bit"
    /\ history[1].out = history[3].out

-----------------------------------------------------------------------------
(* Properties of the rounds                                                *)

\* The published ChaCha20 keystream block for the all-zero key, the all-zero
\* nonce and counter 0 (76 b8 e0 ad a0 f1 3d 90 ...).
KnownBlock ==
    << 118, 184, 224, 173, 160, 241, 61, 144, 64, 93, 106, 229, 83, 134, 189, 40,
       189, 210, 25, 184, 160, 141, 237, 26, 168, 54, 239, 204, 139, 119, 13, 199,
       218, 65, 89, 124, 81, 87, 72, 141, 119, 36, 224, 63, 184, 216, 74, 55,
       106, 67, 184, 244, 21, 24, 161, 28, 195, 135, 182, 105, 178, 238, 101, 134 >>

\* The CipherState of the published vector.
KnownState == MkState(ZeroKey, W(0, 0), ZeroNonce)

\* C11: Known vector. For the CipherState made of the four constant words,
\* an all-zero key, an all-zero nonce and counter 0, the first 64 bytes a
\* returned call has written begin with 76 b8 e0 ad (118, 184, 224, 173) and
\* are the published keystream block, in every tier.
C11_KnownVector ==
    \A t \in Threads :
        pc[t] = "done" /\ call[t].state = KnownState =>
            /\ Bytes(mem, ResultAddr(t), 4) = <<118, 184, 224, 173>>
            /\ Bytes(mem, ResultAddr(t), 64) = KnownBlock

\* The AVX2 stub has returned from a call on the published vector's state.
C11_Witness ==
    \E t \in Threads :
        /\ pc[t] = "done"
        /\ call[t].state = KnownState
        /\ call[t].vector_len = "AVX_256bit"
        /\ Bytes(mem, ResultAddr(t), 64) = KnownBlock

RECURSIVE RoundTrail(_, _)
\* trail extended by h more rounds of the scalar block function, column and
\* diagonal rounds by direct indexing in turn: trail[2 * m + 1] is the block
\* after m double rounds, trail[2 * m + 2] that block after one more column
\* round.
RoundTrail(trail, h) ==
    IF h = 0 THEN trail
    ELSE LET last == trail[Len(trail)]
             nxt  == IF Len(trail) % 2 = 1 THEN ColumnRoundRef(last)
                     ELSE DiagonalRoundRef(last)
         IN  IF Len(nxt) = 16 THEN RoundTrail(Append(trail, nxt), h - 1)
             ELSE trail

\* The trail of each of the 16 blocks of each state of StateList, computed
\* once.
RoundTable ==
    Vec([k \in 1..Len(StateList) |->
            Vec([i \in 1..16 |->
                    RoundTrail(<<WithCounter(StateList[k], i - 1)>>, 20)], 16)],
        Len(StateList))

\* Block i (0-based) of start state s after h rounds by direct indexing.
AfterRounds(s, i, h) ==
    RoundTable[CHOOSE k \in 1..Len(StateList) : StateList[k] = s][i + 1][h + 1]

\* The rounds finished when thread t is at the top of a loop iteration.
RoundsDone(t) == 2 * (10 - loopCounter[t])

\* The working registers of thread t hold, block by block and in columnar
\* order (row k = words 4k..4k+3), the blocks after h rounds.
Columnar(t, h) ==
    \A i \in 0..(NumBlocks(call[t].vector_len) - 1) :
        WorkingBlock(regs[t], call[t].vector_len, i)
        = AfterRounds(call[t].state, i, h)

\* The working registers of thread t hold the blocks after h rounds with
\* rows b, c, d rotated by 1, 2, 3 lanes inside each block's own segment:
\* lane j of rows a, b, c, d holds words j, 4 + (j+1) % 4, 8 + (j+2) % 4,
\* 12 + (j+3) % 4, the j-th diagonal.
Diagonal(t, h) ==
    \A i \in 0..(NumBlocks(call[t].vector_len) - 1) :
        \A k, j \in 0..3 :
            WorkingWord(regs[t], call[t].vector_len, i, 4 * k + j)
            = AfterRounds(call[t].state, i, h)[4 * k + ((j + k) % 4) + 1]

\* C12: Lane rotation is equivalent to direct diagonal indexing. In every
\* loop iteration, for every block: the lane shift puts the j-th diagonal
\* in lane j of the block's own segment; after the row-aligned quarter round
\* and the inverse shift the block is the one QR gives when applied directly
\* to (0,5,10,15), (1,6,11,12), (2,7,8,13), (3,4,9,14); at the top of every
\* iteration and at loop exit the rows are in columnar order.
C12_LaneRotation ==
    \A t \in Threads :
        /\ pc[t] = "qr_col" => Columnar(t, RoundsDone(t))
        /\ pc[t] = "to_diag" => Columnar(t, RoundsDone(t) + 1)
        /\ pc[t] = "qr_diag" => Diagonal(t, RoundsDone(t) + 1)
        /\ pc[t] = "to_col" => Diagonal(t, RoundsDone(t) + 2)
        /\ pc[t] = "dec" => Columnar(t, RoundsDone(t) + 2)
        /\ pc[t] = "add" => Columnar(t, 20)

\* The AVX-512 stub is past the inverse shift of its third iteration, with
\* all 16 blocks in columnar order.
C12_Witness ==
    \E t \in Threads :
        /\ pc[t] = "dec"
        /\ loopCounter[t] = 8
        /\ call[t].vector_len = "AVX_512bit"
        /\ call[t].state[13] = W(65535, 65534)
        /\ Columnar(t, 6)

\* Word j (0..15) of the start state saved for block i: row j \div 4 of the
\* saved registers of the block's group, in the block's segment.
SavedWord(r, vector_len, i, j) ==
    Get(r, StateRegs(vector_len, (i \div Segs(vector_len)) + 1)[(j \div 4) + 1])
       [4 * (i % Segs(vector_len)) + (j % 4) + 1]

\* Thread t is between the set-up of its registers and the feed-forward.
InRounds(t) == pc[t] \in {"qr_col", "to_diag", "qr_diag", "to_col", "dec", "add"}

\* Thread t has done the feed-forward; the registers stay as they are from
\* here to the return.
FedForward(t) == pc[t] \in {"store", "ret", "done"}

\* C13: Feed-forward uses each block's own pre-round state. From the set-up
\* to the feed-forward the saved registers hold, for block i, the CipherState
\* with counter + i (dState, d2State, d3State, d4State carry their groups'
\* offsets); after the feed-forward every word of block i is the word after
\* the 10 double rounds plus, mod 2^32, the same word of the CipherState with
\* counter + i.
C13_FeedForward ==
    \A t \in Threads :
        InRounds(t) \/ FedForward(t) =>
        \A i \in 0..(NumBlocks(call[t].vector_len) - 1) :
            \A j \in 0..15 :
                /\ InRounds(t) =>
                      SavedWord(regs[t], call[t].vector_len, i, j)
                      = WithCounter(call[t].state, i)[j + 1]
                /\ FedForward(t) =>
                      WorkingWord(regs[t], call[t].vector_len, i, j)
                      = Add32(AfterRounds(call[t].state, i, 20)[j + 1],
                              WithCounter(call[t].state, i)[j + 1])

\* The AVX-512 stub has just done the feed-forward; word 12 of block 9
\* (group 3, segment 1) got counter + 9 added, read from d3State.
C13_Witness ==
    \E t \in Threads :
        /\ pc[t] = "store"
        /\ idx[t] = 0
        /\ call[t].vector_len = "AVX_512bit"
        /\ call[t].state[13] = W(0, 1)
        /\ SavedWord(regs[t], "AVX_512bit", 9, 12) = W(0, 10)
        /\ WorkingWord(regs[t], "AVX_512bit", 9, 12)
           = Add32(AfterRounds(call[t].state, 9, 20)[13], W(0, 10))

-----------------------------------------------------------------------------
(* Termination                                                             *)

\* The program positions inside the stub.
StubPcs ==
    {"enter", "load", "init", "qr_col", "to_diag", "qr_diag", "to_col", "dec",
     "add", "store", "ret"}

\* Thread t, inside the stub, gets one instruction group further: its
\* position changes. (Every step of the stub changes pc[t] or idx[t], and
\* each is enabled by the position alone; the fairness condition is stated on
\* the positions because ENABLED of the register computations is beyond
\* what TLC evaluates in reasonable time.)
Advances(t) ==
    /\ pc[t] \in StubPcs
    /\ pc' \in [Threads -> StubPcs \cup {"idle", "done"}]
    /\ idx' \in [Threads -> 0..16]
    /\ <<pc'[t], idx'[t]>> # <<pc[t], idx[t]>>

\* One call by thread 1 as in Spec; a thread that is in the stub keeps
\* executing it.
SpecLive ==
    Init /\ [][Next]_vars /\ \A t \in Threads : WF_<<pc, idx>>(Advances(t))

\* In the loop the counter is between 1 and 10 and tells the iteration; at
\* the feed-forward it is 0 and every block has had 10 double rounds.
LoopCounterLaw ==
    \A t \in Threads :
        /\ pc[t] \in {"qr_col", "to_diag", "qr_diag", "to_col", "dec"} =>
              loopCounter[t] \in 1..10
        /\ pc[t] = "add" => loopCounter[t] = 0 /\ Columnar(t, 20)

\* The loop counter is set to 10 on entry to the loop, goes down by one at
\* the end of each iteration and changes nowhere else; the branch goes back
\* exactly when it is not yet zero; past the loop no step goes back.
LoopSteps ==
    \A t \in Threads :
        /\ pc[t] = "init" /\ pc'[t] # "init" =>
              pc'[t] = "qr_col" /\ loopCounter'[t] = 10
        /\ pc[t] = "qr_col" /\ pc'[t] # "qr_col" => pc'[t] = "to_diag"
        /\ pc[t] = "to_diag" /\ pc'[t] # "to_diag" => pc'[t] = "qr_diag"
        /\ pc[t] = "qr_diag" /\ pc'[t] # "qr_diag" => pc'[t] = "to_col"
        /\ pc[t] = "to_col" /\ pc'[t] # "to_col" => pc'[t] = "dec"
        /\ pc[t] = "dec" /\ pc'[t] # "dec" =>
              /\ loopCounter'[t] = loopCounter[t] - 1
              /\ pc'[t] = IF loopCounter'[t] = 0 THEN "add" ELSE "qr_col"
        /\ pc[t] # "init" /\ pc[t] # "dec" => loopCounter'[t] = loopCounter[t]
        /\ pc[t] \in {"add", "store", "ret"} =>
              pc'[t] \in {"add", "store", "ret", "done"}

\* C14: The round loop terminates after exactly 10 iterations in every tier
\* and for every input: the counter starts at 10, goes down by one per
\* iteration and the loop is left when it is zero; each iteration is one
\* column round and one diagonal round on every group, so every block has
\* had exactly 10 double rounds at the feed-forward; and a call that has
\* entered the stub runs through the stores to the return, with no branch
\* after the loop.
C14_LoopTerminates ==
    /\ []LoopCounterLaw
    /\ [][LoopSteps]_vars
    /\ \A t \in Threads : (pc[t] = "enter") ~> (pc[t] = "done")

\* The AVX-512 stub has left the loop: counter 0, ten double rounds done.
C14_Witness ==
    \E t \in Threads :
        /\ pc[t] = "add"
        /\ loopCounter[t] = 0
        /\ call[t].vector_len = "AVX_512bit"
        /\ Columnar(t, 20)

-----------------------------------------------------------------------------
(* The sparse-data codec: arithmetic on bytes and juint values             *)

\* uint8_t(x): an int narrowed to a byte.
ToU8(x) == x % Byte

\* a | b on values below 2^16.
Or16(a, b) == (a + b + Xor16(a, b)) \div 2

\* a | b on juint values.
Or32(a, b) == <<Or16(a[1], b[1]), Or16(a[2], b[2])>>

\* val >> n on a juint, 0 < n < 16.
Shr32(val, n) ==
    <<(val[1] \div (2 ^ n)) + (val[2] % (2 ^ n)) * (2 ^ (16 - n)),
      val[2] \div (2 ^ n)>>

\* x << n as a juint for an int 0 <= x < 2^8: the low 32 bits of the product.
Shl32(x, n) ==
    IF n >= 32 THEN W(0, 0)
    ELSE IF n >= 16 THEN W((x * (2 ^ (n - 16))) % Half, 0)
    ELSE W(((x * (2 ^ n)) \div Half) % Half, (x * (2 ^ n)) % Half)

\* (jint)val: the juint read as a two's complement number.
ToJint(val) ==
    IF val[2] >= Half \div 2 THEN (val[2] - Half) * Half + val[1]
    ELSE val[2] * Half + val[1]

-----------------------------------------------------------------------------
(* CompressedSparseDataWriteStream                                         *)

\* _buffer[i] = b
SetByte(w, i, b) == [w EXCEPT !.buffer[i + 1] = b]

\* grow() with the memcpy left out: the new array holds none of the old bytes.
growWithoutCopy(w) ==
    [w EXCEPT !.buffer = [i \in 1..(2 * w.size) |-> w.junk],
              !.size = 2 * w.size]

\* grow(): an array of twice the size, not initialized, gets the first
\* _position bytes of the old one.
grow(w) ==
    [w EXCEPT !.buffer = [i \in 1..(2 * w.size) |->
                             IF i <= w.position THEN w.buffer[i] ELSE w.junk],
              !.size = 2 * w.size]

\* _position++; if (_position >= _size) grow();
Advance(w) ==
    LET w1 == [w EXCEPT !.position = @ + 1]
    IN  IF w1.position >= w1.size THEN grow(w1) ELSE w1

write_zero(w) ==
    LET w1 == IF w.bit_pos = 0 THEN SetByte(w, w.position, 0) ELSE w
        w2 == [w1 EXCEPT !.bit_pos = @ + 1]
    IN  IF w2.bit_pos = 8
        THEN LET w3 == Advance(w2)
             IN  [SetByte(w3, w3.position, 0) EXCEPT !.bit_pos = 0]
        ELSE w2

write_byte_impl(w, b) ==
    LET w1 == IF w.bit_pos = 0 THEN SetByte(w, w.position, b)
              ELSE SetByte(w, w.position,
                           Or16(w.buffer[w.position + 1],
                                b \div (2 ^ w.bit_pos)))
        w2 == Advance(w1)
    IN  IF w2.bit_pos > 0
        THEN SetByte(w2, w2.position, ToU8(b * (2 ^ (8 - w2.bit_pos))))
        ELSE w2

RECURSIVE WriteRest(_, _)
\* while (next != 0) { ... write_byte_impl(bit7 | (next & 0x7f)); next >>= 7; }
WriteRest(w, next) ==
    IF next = W(0, 0) THEN w
    ELSE LET bit7 == IF Shr32(next, 7) # W(0, 0) THEN 128 ELSE 0
         IN  WriteRest(write_byte_impl(w, ToU8(Or16(bit7, next[1] % 128))),
                       Shr32(next, 7))

write_int(w, val) ==
    IF val = W(0, 0) THEN write_zero(w)
    ELSE LET bit7 == 128
             next == Shr32(val, 6)
             bit6 == IF next # W(0, 0) THEN 64 ELSE 0
         IN  WriteRest(
                 write_byte_impl(w, ToU8(Or16(Or16(bit7, bit6), val[1] % 64))),
                 next)

-----------------------------------------------------------------------------
(* CompressedSparseDataReadStream                                          *)

\* Each read is the pair <<stream after the read, value read>>.
read_zero(r) ==
    IF (r.buffer[r.position + 1] \div (2 ^ (7 - r.bit_pos))) % 2 = 1
    THEN <<r, FALSE>>
    ELSE IF r.bit_pos + 1 = 8
         THEN <<[r EXCEPT !.position = @ + 1, !.bit_pos = 0], TRUE>>
         ELSE <<[r EXCEPT !.bit_pos = @ + 1], TRUE>>

read_byte_impl(r) ==
    IF r.bit_pos = 0
    THEN <<[r EXCEPT !.position = @ + 1], r.buffer[r.position + 1]>>
    ELSE LET b1 == ToU8(r.buffer[r.position + 1] * (2 ^ r.bit_pos))
             b2 == r.buffer[r.position + 2] \div (2 ^ (8 - r.bit_pos))
         IN  <<[r EXCEPT !.position = @ + 1], Or16(b1, b2)>>

RECURSIVE ReadRest(_, _, _, _)
\* for (int i = 0; (i == 0) ? (b & 0x40) : (b & 0x80); i++) { ... }
ReadRest(r, b, i, result) ==
    IF (IF i = 0 THEN (b \div 64) % 2 = 1 ELSE b >= 128)
    THEN LET rb == read_byte_impl(r)
         IN  ReadRest(rb[1], rb[2], i + 1,
                      Or32(result, Shl32(rb[2] % 128, 6 + 7 * i)))
    ELSE <<r, ToJint(result)>>

read_int(r) ==
    LET z == read_zero(r)
    IN  IF z[2] THEN <<z[1], 0>>
        ELSE LET rb == read_byte_impl(z[1])
             IN  ReadRest(rb[1], rb[2], 0, W(0, rb[2] % 64))

-----------------------------------------------------------------------------
(* The codec's user: values are written, then read back                    *)

\* Most zeros written before the first other value is.
MaxZeros == 9

\* Most values written after the leading zeros.
MaxWrites == 3

\* The values written: 0; 63, 64, 8192, 2^27 - 1 and 0xFFFFFFFF, encoded in
\* one, two, three, four and five bytes; and 0x80000000, the sign bit alone.
Values ==
    {W(0, 0), W(0, 63), W(0, 64), W(0, 8192), W(2047, 65535), W(32768, 0),
     W(65535, 65535)}

\* The sizes the write stream is constructed with.
InitialSizes == {1, 4}

RECURSIVE LeadingZeros(_)
\* The length of the run of zeros vs starts with.
LeadingZeros(vs) ==
    IF vs = <<>> \/ Head(vs) # W(0, 0) THEN 0 ELSE 1 + LeadingZeros(Tail(vs))

\* The constructor: position and bit position 0, and an array of the given
\* size that nobody has initialized.
NewWriter(size, junk) ==
    [buffer |-> [i \in 1..size |-> junk], position |-> 0, bit_pos |-> 0,
     size |-> size, junk |-> junk]

\* A read stream on the bytes the writer has produced.
NewReader(w) == [w EXCEPT !.position = 0, !.bit_pos = 0]

InitCodec ==
    /\ \E size \in InitialSizes, junk \in {0, 255} :
          writer = NewWriter(size, junk)
    /\ reader = NoStream
    /\ written = <<>>
    /\ readBack = <<>>
    /\ mem = <<>> /\ regs = <<>> /\ rax = <<>> /\ loopCounter = <<>>
    /\ pc = <<>> /\ idx = <<>> /\ call = <<>> /\ stores = <<>>
    /\ callsLeft = <<>> /\ history = <<>> /\ menu = <<>>

\* writer.write_int(val)
WriteInt ==
    /\ reader = NoStream
    /\ Len(written) - Min(LeadingZeros(written), MaxZeros) < MaxWrites
    /\ \E val \in Values :
          /\ writer' = write_int(writer, val)
          /\ written' = Append(written, val)
    /\ UNCHANGED <<reader, readBack>>
    /\ UNCHANGED chachaVars

\* The writing is over; a read stream is put on the buffer.
StartRead ==
    /\ reader = NoStream
    /\ written # <<>>
    /\ reader' = NewReader(writer)
    /\ UNCHANGED <<writer, written, readBack>>
    /\ UNCHANGED chachaVars

\* reader.read_int()
ReadInt ==
    /\ reader # NoStream
    /\ Len(readBack) < Len(written)
    /\ LET rv == read_int(reader)
       IN  /\ reader' = rv[1]
           /\ readBack' = Append(readBack, rv[2])
    /\ UNCHANGED <<writer, written>>
    /\ UNCHANGED chachaVars

NextCodec == WriteInt \/ StartRead \/ ReadInt

SpecCodec == InitCodec /\ [][NextCodec]_vars

\* C15: Sparse-data codec round trip. Whatever values write_int was given,
\* from an empty stream on, the k-th read_int returns the k-th of them (as
\* the jint with the same 32 bits), zeros and other values mixed, at every
\* bit position and also when the buffer has grown; and after every write
\* the writer's _position is below its _size.
C15_RoundTrip ==
    /\ writer.position < writer.size
    /\ writer.size = Len(writer.buffer)
    /\ Len(readBack) <= Len(written)
    /\ \A k \in 1..Len(readBack) : readBack[k] = ToJint(written[k])

\* Nine zeros, 0xFFFFFFFF at bit position 1 and 64 were written into a
\* stream of size 1 that grew, and all eleven values were read back.
C15_Witness ==
    /\ Len(written) = 11
    /\ LeadingZeros(written) = 9
    /\ written[10] = W(65535, 65535)
    /\ written[11] = W(0, 64)
    /\ writer.size = 16
    /\ writer.bit_pos = 1
    /\ Len(readBack) = 11
    /\ readBack[10] = -1
    /\ readBack[11] = 64

=============================================================================
